---- MODULE Spec2Model ----
(***************************************************************************)
(* Model of the calculator engine of script.js (lines 9-233): the four     *)
(* engine variables, the display text, and one action per command as the   *)
(* click and keydown handlers dispatch it (handler followed by             *)
(* updateDisplay).                                                         *)
(*                                                                         *)
(* Strings are sequences of one-character strings, so that slice, +=,      *)
(* startsWith, includes and replace act on characters as they do in the    *)
(* source.  Numbers are records: NaN, +-Infinity, null (compute's          *)
(* divide-by-zero signal and the empty accumulator) or a finite decimal    *)
(* floating point value  (-1)^neg * 0.d1 d2 ... dk * 10^exp  with d1 # 0   *)
(* and dk # 0 (zero: no digits).  JavaScript's binary64 arithmetic is      *)
(* modelled as decimal arithmetic correctly rounded to DoubleDigits        *)
(* significant digits (round half to even); Number(), String(),            *)
(* toPrecision and toExponential are computed on the digits as ECMAScript  *)
(* defines them.  A value whose binary64 rounding differs from its decimal *)
(* rounding (0.07 / 100 is 0.0007000000000000001 in binary64) differs in   *)
(* its last digits here.  The sign of zero is not kept: the source never   *)
(* observes it (String(-0) is "0", -0 === 0, and toPrecision drops it).    *)
(***************************************************************************)
EXTENDS Integers, Sequences, FiniteSets

(***************************************************************************)
(* Digit sequences (most significant digit first) as natural numbers.      *)
(***************************************************************************)
Zeros(n) == [i \in 1..n |-> 0]

AllZero(ds) == \A i \in 1..Len(ds) : ds[i] = 0

\* ds without its leading zeros
StripLead(ds) ==
    IF AllZero(ds) THEN <<>>
    ELSE LET f == CHOOSE i \in 1..Len(ds) :
                     ds[i] # 0 /\ \A j \in 1..(i-1) : ds[j] = 0
         IN  SubSeq(ds, f, Len(ds))

\* ds without its trailing zeros
StripTrail(ds) ==
    IF AllZero(ds) THEN <<>>
    ELSE LET l == CHOOSE i \in 1..Len(ds) :
                     ds[i] # 0 /\ \A j \in (i+1)..Len(ds) : ds[j] = 0
         IN  SubSeq(ds, 1, l)

PadLeft(ds, n) == IF Len(ds) >= n THEN ds ELSE Zeros(n - Len(ds)) \o ds

\* -1, 0, 1 as a < b, a = b, a > b, for sequences of equal length
CmpSame(a, b) ==
    IF a = b THEN 0
    ELSE LET f == CHOOSE i \in 1..Len(a) :
                     a[i] # b[i] /\ \A j \in 1..(i-1) : a[j] = b[j]
         IN  IF a[f] < b[f] THEN -1 ELSE 1

CmpDigs(a, b) ==
    LET n == IF Len(a) > Len(b) THEN Len(a) ELSE Len(b)
    IN  CmpSame(PadLeft(a, n), PadLeft(b, n))

RECURSIVE AddCarry(_, _, _, _)
\* digits i..1 of a + b + c (a, b of equal length), carry included in front
AddCarry(a, b, i, c) ==
    IF i = 0 THEN (IF c = 0 THEN <<>> ELSE <<c>>)
    ELSE LET s == a[i] + b[i] + c
         IN  Append(AddCarry(a, b, i - 1, s \div 10), s % 10)

AddDigs(a, b) ==
    LET n == IF Len(a) > Len(b) THEN Len(a) ELSE Len(b)
    IN  AddCarry(PadLeft(a, n), PadLeft(b, n), n, 0)

RECURSIVE SubBorrow(_, _, _, _)
\* a - b - c for a >= b + c (equal length), same length as a
SubBorrow(a, b, i, c) ==
    IF i = 0 THEN <<>>
    ELSE LET s == a[i] - b[i] - c
         IN  IF s < 0 THEN Append(SubBorrow(a, b, i - 1, 1), s + 10)
                      ELSE Append(SubBorrow(a, b, i - 1, 0), s)

SubDigs(a, b) ==
    LET n == IF Len(a) > Len(b) THEN Len(a) ELSE Len(b)
    IN  SubBorrow(PadLeft(a, n), PadLeft(b, n), n, 0)

RECURSIVE MulDigit(_, _, _, _)
\* a * d + c for one digit d
MulDigit(a, d, i, c) ==
    IF i = 0 THEN (IF c = 0 THEN <<>> ELSE <<c>>)
    ELSE LET s == a[i] * d + c
         IN  Append(MulDigit(a, d, i - 1, s \div 10), s % 10)

RECURSIVE MulAcc(_, _, _, _)
\* acc * 10^(digits of b left) + a * b[i..]
MulAcc(a, b, i, acc) ==
    IF i > Len(b) THEN acc
    ELSE MulAcc(a, b, i + 1,
                AddDigs(Append(acc, 0), MulDigit(a, b[i], Len(a), 0)))

MulDigs(a, b) == MulAcc(a, b, 1, <<>>)

RECURSIVE QuotDigit(_, _, _)
\* the largest q with q * d <= r, counting up from q
QuotDigit(r, d, q) ==
    IF CmpDigs(r, d) < 0 THEN [q |-> q, r |-> r]
    ELSE QuotDigit(StripLead(SubDigs(r, d)), d, q + 1)

RECURSIVE LongDiv(_, _, _, _, _)
\* long division of n by d from digit i on, with running remainder r and
\* the quotient digits so far in acc: [q |-> quotient, r |-> remainder]
LongDiv(n, d, i, r, acc) ==
    IF i > Len(n) THEN [q |-> acc, r |-> r]
    ELSE LET step == QuotDigit(StripLead(Append(r, n[i])), d, 0)
         IN  LongDiv(n, d, i + 1, step.r, Append(acc, step.q))

DivDigs(n, d) == LongDiv(n, d, 1, <<>>, <<>>)

(***************************************************************************)
(* JavaScript Number values.                                               *)
(***************************************************************************)
\* the stand-in for binary64's 53-bit significand: the number of
\* significant decimal digits every arithmetic result is rounded to
DoubleDigits == 17

NaN == [k |-> "nan", neg |-> FALSE, dig |-> <<>>, exp |-> 0]

Infinity(neg) == [k |-> "inf", neg |-> neg, dig |-> <<>>, exp |-> 0]

\* null: the empty accumulator and compute's divide-by-zero result
Null == [k |-> "null", neg |-> FALSE, dig |-> <<>>, exp |-> 0]

Zero == [k |-> "fin", neg |-> FALSE, dig |-> <<>>, exp |-> 0]

IsFinite(x) == x.k = "fin"

IsZero(x) == x.k = "fin" /\ x.dig = <<>>

\* ds (no leading zero) rounded to p digits: the digits kept and whether
\* the rounding carried into a new leading digit.  Ties go to the even
\* digit (arithmetic) or away from zero (toPrecision, toExponential).
RoundDigs(ds, p, halfEven) ==
    IF Len(ds) <= p THEN [dig |-> ds, inc |-> 0]
    ELSE LET head == SubSeq(ds, 1, p)
             t    == ds[p + 1]
             rest == SubSeq(ds, p + 2, Len(ds))
             up   == \/ t > 5
                     \/ t = 5 /\ ~AllZero(rest)
                     \/ t = 5 /\ AllZero(rest)
                              /\ (~halfEven \/ head[p] % 2 = 1)
             r    == IF up THEN AddDigs(head, <<1>>) ELSE head
         IN  [dig |-> SubSeq(r, 1, p), inc |-> Len(r) - p]

\* binary64's range: above Number.MAX_VALUE a result is an Infinity
Overflows(ds, e) ==
    \/ e > 309
    \/ e = 309 /\ CmpDigs(SubSeq(ds \o Zeros(18), 1, 18),
                          <<1,7,9,7,6,9,3,1,3,4,8,6,2,3,1,5,8,1>>) >= 0

\* below half of Number.MIN_VALUE a result is zero
Underflows(ds, e) ==
    \/ e < -323
    \/ e = -323 /\ CmpDigs(SubSeq(ds \o Zeros(17), 1, 17),
                           <<2,4,7,0,3,2,8,2,2,9,2,0,6,2,3,2,8>>) < 0

\* the Number nearest to (-1)^neg * 0.ds * 10^e, for any digit sequence ds
MkNum(neg, ds, e) ==
    LET d1 == StripLead(ds)
        e1 == e - (Len(ds) - Len(d1))
        r  == RoundDigs(d1, DoubleDigits, TRUE)
        e2 == e1 + r.inc
    IN  IF d1 = <<>> THEN Zero
        ELSE IF Overflows(r.dig, e2) THEN Infinity(neg)
        ELSE IF Underflows(r.dig, e2) THEN Zero
        ELSE [k |-> "fin", neg |-> neg, dig |-> StripTrail(r.dig), exp |-> e2]

Neg(x) == IF IsZero(x) THEN x ELSE [x EXCEPT !.neg = ~x.neg]

\* a + b on finite numbers
NumAdd(a, b) ==
    IF IsZero(a) THEN b
    ELSE IF IsZero(b) THEN a
    ELSE IF a.exp - b.exp > DoubleDigits + 2 THEN a
    ELSE IF b.exp - a.exp > DoubleDigits + 2 THEN b
    ELSE LET la == a.exp - Len(a.dig)
             lb == b.exp - Len(b.dig)
             s  == IF la < lb THEN la ELSE lb
             A  == a.dig \o Zeros(la - s)
             B  == b.dig \o Zeros(lb - s)
         IN  IF a.neg = b.neg
             THEN LET sum == AddDigs(A, B) IN MkNum(a.neg, sum, Len(sum) + s)
             ELSE LET c == CmpDigs(A, B)
                      d == IF c >= 0 THEN SubDigs(A, B) ELSE SubDigs(B, A)
                  IN  MkNum(IF c >= 0 THEN a.neg ELSE b.neg, d, Len(d) + s)

NumSub(a, b) == NumAdd(a, Neg(b))

\* a * b on finite numbers
NumMul(a, b) ==
    IF IsZero(a) \/ IsZero(b) THEN Zero
    ELSE LET p == MulDigs(a.dig, b.dig)
         IN  MkNum(a.neg # b.neg, p,
                   Len(p) + a.exp + b.exp - Len(a.dig) - Len(b.dig))

\* a / b on finite numbers, b # 0: long division to two digits more than
\* are kept, and one more digit that says whether a remainder is left
NumDiv(a, b) ==
    IF IsZero(a) THEN Zero
    ELSE LET pad == DoubleDigits + 2 + Len(b.dig)
             qr  == DivDigs(a.dig \o Zeros(pad), b.dig)
             q   == StripLead(qr.q)
             e   == Len(q) - pad + a.exp - Len(a.dig) - b.exp + Len(b.dig)
         IN  MkNum(a.neg # b.neg,
                   IF qr.r = <<>> THEN q ELSE Append(q, 1), e)

\* Number(x.toPrecision(p)) and Number(x.toExponential(p - 1)) for finite
\* x: x rounded to p significant digits, ties away from zero
RoundSig(x, p) ==
    IF IsZero(x) THEN Zero
    ELSE LET r == RoundDigs(x.dig, p, FALSE)
         IN  MkNum(x.neg, r.dig, x.exp + r.inc)

\* x = 100, the divisor of percent
Hundred == [k |-> "fin", neg |-> FALSE, dig |-> <<1>>, exp |-> 3]

(***************************************************************************)
(* Strings and the conversions between strings and Numbers.                *)
(***************************************************************************)
DigitChars == <<"0", "1", "2", "3", "4", "5", "6", "7", "8", "9">>

IsDigitChar(c) == \E i \in 1..10 : DigitChars[i] = c

CharOf(d) == DigitChars[d + 1]

ValOf(c) == (CHOOSE i \in 1..10 : DigitChars[i] = c) - 1

Chars(ds) == [i \in 1..Len(ds) |-> CharOf(ds[i])]

Vals(cs) == [i \in 1..Len(cs) |-> ValOf(cs[i])]

AllDigitChars(cs) == \A i \in 1..Len(cs) : IsDigitChar(cs[i])

\* String.prototype.includes for one character
Includes(s, c) == \E i \in 1..Len(s) : s[i] = c

\* the first position of a character of cset in s, or 0
IndexOf(s, cset) ==
    IF \E i \in 1..Len(s) : s[i] \in cset
    THEN CHOOSE i \in 1..Len(s) :
             s[i] \in cset /\ \A j \in 1..(i-1) : s[j] \notin cset
    ELSE 0

\* String.prototype.startsWith for one character
StartsWith(s, c) == Len(s) > 0 /\ s[1] = c

\* s.replace('.', ''): the first point removed
RemovePoint(s) ==
    LET i == IndexOf(s, {"."})
    IN  IF i = 0 THEN s ELSE SubSeq(s, 1, i - 1) \o SubSeq(s, i + 1, Len(s))

\* the decimal digits of a natural number
RECURSIVE NatDigits(_)
NatDigits(n) == IF n < 10 THEN <<n>> ELSE Append(NatDigits(n \div 10), n % 10)

\* the natural number of at most six digits; longer ones are cut off at
\* 999999, far beyond every exponent binary64 tells apart
RECURSIVE NatOf(_, _)
NatOf(ds, acc) == IF ds = <<>> THEN acc ELSE NatOf(Tail(ds), 10 * acc + Head(ds))

ExpOf(ds) ==
    LET d == StripLead(ds) IN IF Len(d) > 6 THEN 999999 ELSE NatOf(d, 0)

\* Number::toString(x) of ECMAScript for a finite x; with n = x.exp and
\* k = Len(x.dig) in the standard's names
FiniteToString(x) ==
    LET k    == Len(x.dig)
        n    == x.exp
        ds   == Chars(x.dig)
        sign == IF x.neg THEN <<"-">> ELSE <<>>
        e    == n - 1
        es   == <<IF e >= 0 THEN "+" ELSE "-">>
                    \o Chars(NatDigits(IF e >= 0 THEN e ELSE -e))
    IN  IF k = 0 THEN <<"0">>
        ELSE IF k <= n /\ n <= 21 THEN sign \o ds \o Chars(Zeros(n - k))
        ELSE IF 0 < n /\ n <= 21
             THEN sign \o SubSeq(ds, 1, n) \o <<".">> \o SubSeq(ds, n + 1, k)
        ELSE IF -6 < n /\ n <= 0
             THEN sign \o <<"0", ".">> \o Chars(Zeros(-n)) \o ds
        ELSE IF k = 1 THEN sign \o ds \o <<"e">> \o es
        ELSE sign \o <<ds[1], ".">> \o SubSeq(ds, 2, k) \o <<"e">> \o es

\* String(x)
String(x) ==
    CASE x.k = "fin"  -> FiniteToString(x)
      [] x.k = "nan"  -> <<"N", "a", "N">>
      [] x.k = "inf"  -> (IF x.neg THEN <<"-">> ELSE <<>>)
                             \o <<"I", "n", "f", "i", "n", "i", "t", "y">>
      [] x.k = "null" -> <<"n", "u", "l", "l">>

\* StrUnsignedDecimalLiteral: digits with at most one point and at least
\* one digit, then an optional exponent part (e or E, optional sign, digits)
ParseUnsigned(neg, s) ==
    LET ei   == IndexOf(s, {"e", "E"})
        man  == IF ei = 0 THEN s ELSE SubSeq(s, 1, ei - 1)
        ex   == IF ei = 0 THEN <<>> ELSE SubSeq(s, ei + 1, Len(s))
        exNeg == ex # <<>> /\ ex[1] = "-"
        exDs == IF ex # <<>> /\ ex[1] \in {"+", "-"} THEN Tail(ex) ELSE ex
        pi   == IndexOf(man, {"."})
        ip   == IF pi = 0 THEN man ELSE SubSeq(man, 1, pi - 1)
        fp   == IF pi = 0 THEN <<>> ELSE SubSeq(man, pi + 1, Len(man))
        ev   == IF ei = 0 THEN 0
                ELSE IF exNeg THEN -ExpOf(Vals(exDs)) ELSE ExpOf(Vals(exDs))
    IN  IF \/ ~AllDigitChars(ip) \/ ~AllDigitChars(fp)
           \/ Len(ip) + Len(fp) = 0
           \/ ei # 0 /\ (exDs = <<>> \/ ~AllDigitChars(exDs))
        THEN NaN
        ELSE MkNum(neg, Vals(ip \o fp), Len(ip) + ev)

\* Number(s): StringToNumber of ECMAScript on the strings the engine can
\* hold (no white space, no Infinity, no 0x literals: none of their
\* characters ever enters currentInput)
Number(s) ==
    IF s = <<>> THEN Zero
    ELSE IF s[1] = "-" THEN ParseUnsigned(TRUE, Tail(s))
    ELSE IF s[1] = "+" THEN ParseUnsigned(FALSE, Tail(s))
    ELSE ParseUnsigned(FALSE, s)

(***************************************************************************)
(* The engine: script.js lines 12-146.  An engine state is a record of     *)
(* the four variables; each handler maps the state before to the state     *)
(* after.                                                                  *)
(***************************************************************************)
MAX_DIGITS == 15

ERROR == <<"E", "R", "R", "O", "R">>

ErrorText == <<"E", "r", "r", "o", "r">>

\* the operators after opMap: '+', '-', '*', '/'
Ops == {"+", "-", "*", "/"}

NoOp == "null"

State(ci, acc, op, lpe) ==
    [currentInput |-> ci, accumulator |-> acc, pendingOp |-> op,
     lastPressedEquals |-> lpe]

\* updateDisplay storing the text it shows (currentInput = text after line
\* 31)
updateDisplayKeepsText(ci) ==
    IF ci # ERROR /\ Len(ci) > MAX_DIGITS
    THEN IF ~IsFinite(Number(ci)) THEN ERROR
         ELSE String(RoundSig(Number(ci), MAX_DIGITS))
    ELSE ci

\* updateDisplay's only assignment to the engine state: a string longer
\* than MAX_DIGITS that is not a finite number becomes 'ERROR'
updateDisplayInput(ci) ==
    IF ci # ERROR /\ Len(ci) > MAX_DIGITS /\ ~IsFinite(Number(ci))
    THEN ERROR ELSE ci

\* displayEl.textContent after updateDisplay
updateDisplayText(ci) ==
    IF ci = ERROR THEN ErrorText
    ELSE IF Len(ci) > MAX_DIGITS
         THEN LET n == Number(ci)
              IN  IF ~IsFinite(n) THEN ErrorText
                  ELSE String(RoundSig(n, MAX_DIGITS))
         ELSE ci

updateDisplay(st) ==
    [st EXCEPT !.currentInput = updateDisplayInput(st.currentInput)]

\* inputDigit without the reset of line 40: the digit joins the result
inputDigitKeepsResult(st, d) ==
    IF st.currentInput = ERROR THEN st
    ELSE LET s == IF st.lastPressedEquals
                  THEN State(st.currentInput, Null, NoOp, FALSE) ELSE st
             ci == s.currentInput
         IN  IF d = "."
             THEN IF Includes(ci, ".") THEN s
                  ELSE [s EXCEPT !.currentInput = Append(ci, ".")]
             ELSE IF ci = <<"0">> THEN [s EXCEPT !.currentInput = <<d>>]
             ELSE IF Len(RemovePoint(ci)) >= MAX_DIGITS THEN s
             ELSE [s EXCEPT !.currentInput = Append(ci, d)]

\* inputDigit without the guard of line 38
inputDigitInError(st, d) ==
    LET s == IF st.lastPressedEquals
             THEN State(<<"0">>, Null, NoOp, FALSE) ELSE st
        ci == s.currentInput
    IN  IF d = "."
        THEN IF Includes(ci, ".") THEN s
             ELSE [s EXCEPT !.currentInput = Append(ci, ".")]
        ELSE IF ci = <<"0">> THEN [s EXCEPT !.currentInput = <<d>>]
        ELSE IF Len(RemovePoint(ci)) >= MAX_DIGITS THEN s
        ELSE [s EXCEPT !.currentInput = Append(ci, d)]

\* inputDigit with > for the >= of line 52
inputDigitOneMore(st, d) ==
    IF st.currentInput = ERROR THEN st
    ELSE LET s == IF st.lastPressedEquals
                  THEN State(<<"0">>, Null, NoOp, FALSE) ELSE st
             ci == s.currentInput
         IN  IF d = "."
             THEN IF Includes(ci, ".") THEN s
                  ELSE [s EXCEPT !.currentInput = Append(ci, ".")]
             ELSE IF ci = <<"0">> THEN [s EXCEPT !.currentInput = <<d>>]
             ELSE IF Len(RemovePoint(ci)) > MAX_DIGITS THEN s
             ELSE [s EXCEPT !.currentInput = Append(ci, d)]

\* inputDigit without the replacement of line 50
inputDigitNoReplace(st, d) ==
    IF st.currentInput = ERROR THEN st
    ELSE LET s == IF st.lastPressedEquals
                  THEN State(<<"0">>, Null, NoOp, FALSE) ELSE st
             ci == s.currentInput
         IN  IF d = "."
             THEN IF Includes(ci, ".") THEN s
                  ELSE [s EXCEPT !.currentInput = Append(ci, ".")]
             ELSE IF Len(RemovePoint(ci)) >= MAX_DIGITS THEN s
             ELSE [s EXCEPT !.currentInput = Append(ci, d)]

inputDigit(st, d) ==
    IF st.currentInput = ERROR THEN st
    ELSE LET s == IF st.lastPressedEquals
                  THEN State(<<"0">>, Null, NoOp, FALSE) ELSE st
             ci == s.currentInput
         IN  IF d = "."
             THEN IF Includes(ci, ".") THEN s
                  ELSE [s EXCEPT !.currentInput = Append(ci, ".")]
             ELSE IF ci = <<"0">> THEN [s EXCEPT !.currentInput = <<d>>]
             ELSE IF Len(RemovePoint(ci)) >= MAX_DIGITS THEN s
             ELSE [s EXCEPT !.currentInput = Append(ci, d)]

\* clearAll without the assignment of line 61
clearAllKeepsEquals(st) == State(<<"0">>, Null, NoOp, st.lastPressedEquals)

clearAll(st) == State(<<"0">>, Null, NoOp, FALSE)

toggleNegate(st) ==
    LET ci == st.currentInput
    IN  IF ci = ERROR THEN st
        ELSE IF ci = <<"0">> THEN st
        ELSE IF StartsWith(ci, "-") THEN [st EXCEPT !.currentInput = Tail(ci)]
        ELSE [st EXCEPT !.currentInput = <<"-">> \o ci]

percent(st) ==
    IF st.currentInput = ERROR THEN st
    ELSE LET n == Number(st.currentInput)
         IN  IF ~IsFinite(n) THEN [st EXCEPT !.currentInput = ERROR]
             ELSE [st EXCEPT !.currentInput = String(NumDiv(n, Hundred))]

compute(a, b, op) ==
    IF ~IsFinite(a) \/ ~IsFinite(b) THEN NaN
    ELSE CASE op = "+" -> NumAdd(a, b)
           [] op = "-" -> NumSub(a, b)
           [] op = "*" -> NumMul(a, b)
           [] op = "/" -> IF IsZero(b) THEN Null ELSE NumDiv(a, b)
           [] OTHER    -> b

roundForDisplay(n) ==
    IF ~IsFinite(n) THEN n
    ELSE IF \/ n.exp > 13
            \/ n.exp = 13 /\ n.dig # <<1>>
            \/ ~IsZero(n) /\ n.exp < -11
         THEN RoundSig(n, 13)
         ELSE RoundSig(n, 12)

\* pressOperator folding with the operator pressed (op for pendingOp || op
\* at line 101)
pressOperatorNewOp(st, op) ==
    IF st.currentInput = ERROR THEN st
    ELSE LET inputVal == Number(st.currentInput)
             fold     == st.accumulator # Null
                            /\ (~st.lastPressedEquals \/ st.pendingOp # NoOp)
             result   == compute(st.accumulator, inputVal, op)
         IN  IF fold /\ result = Null
             THEN updateDisplay(State(ERROR, Null, NoOp, st.lastPressedEquals))
             ELSE State(<<"0">>,
                        IF st.accumulator = Null THEN inputVal
                        ELSE IF fold THEN result ELSE st.accumulator,
                        op, FALSE)

\* pressOperator without the assignment of line 114
pressOperatorKeepsEquals(st, op) ==
    IF st.currentInput = ERROR THEN st
    ELSE LET inputVal == Number(st.currentInput)
             fold     == st.accumulator # Null
                            /\ (~st.lastPressedEquals \/ st.pendingOp # NoOp)
             result   == compute(st.accumulator, inputVal,
                                 IF st.pendingOp # NoOp THEN st.pendingOp
                                                        ELSE op)
         IN  IF fold /\ result = Null
             THEN updateDisplay(State(ERROR, Null, NoOp, st.lastPressedEquals))
             ELSE State(<<"0">>,
                        IF st.accumulator = Null THEN inputVal
                        ELSE IF fold THEN result ELSE st.accumulator,
                        op, st.lastPressedEquals)

\* pressOperator without the fold of lines 100-110: the operand entered
\* last replaces the accumulator
pressOperatorNoFold(st, op) ==
    IF st.currentInput = ERROR THEN st
    ELSE State(<<"0">>, Number(st.currentInput), op, FALSE)

pressOperator(st, op) ==
    IF st.currentInput = ERROR THEN st
    ELSE LET inputVal == Number(st.currentInput)
             fold     == st.accumulator # Null
                            /\ (~st.lastPressedEquals \/ st.pendingOp # NoOp)
             result   == compute(st.accumulator, inputVal,
                                 IF st.pendingOp # NoOp THEN st.pendingOp
                                                        ELSE op)
         IN  IF fold /\ result = Null
             THEN updateDisplay(State(ERROR, Null, NoOp, st.lastPressedEquals))
             ELSE State(<<"0">>,
                        IF st.accumulator = Null THEN inputVal
                        ELSE IF fold THEN result ELSE st.accumulator,
                        op, FALSE)

\* pressEquals without the assignment of line 133
pressEqualsKeepsAccumulator(st) ==
    IF st.currentInput = ERROR THEN st
    ELSE IF st.pendingOp = NoOp THEN [st EXCEPT !.lastPressedEquals = TRUE]
    ELSE LET inputVal == Number(st.currentInput)
             result   == compute(IF st.accumulator = Null THEN Zero
                                 ELSE st.accumulator, inputVal, st.pendingOp)
         IN  IF result = Null \/ ~IsFinite(result)
             THEN updateDisplay(State(ERROR, Null, NoOp, st.lastPressedEquals))
             ELSE State(String(roundForDisplay(result)), st.accumulator,
                        NoOp, TRUE)

\* pressEquals without the assignment of line 134
pressEqualsKeepsOp(st) ==
    IF st.currentInput = ERROR THEN st
    ELSE IF st.pendingOp = NoOp THEN [st EXCEPT !.lastPressedEquals = TRUE]
    ELSE LET inputVal == Number(st.currentInput)
             result   == compute(IF st.accumulator = Null THEN Zero
                                 ELSE st.accumulator, inputVal, st.pendingOp)
         IN  IF result = Null \/ ~IsFinite(result)
             THEN updateDisplay(State(ERROR, Null, NoOp, st.lastPressedEquals))
             ELSE State(String(roundForDisplay(result)), Null,
                        st.pendingOp, TRUE)

\* pressEquals without roundForDisplay at line 132
pressEqualsUnrounded(st) ==
    IF st.currentInput = ERROR THEN st
    ELSE IF st.pendingOp = NoOp THEN [st EXCEPT !.lastPressedEquals = TRUE]
    ELSE LET inputVal == Number(st.currentInput)
             result   == compute(IF st.accumulator = Null THEN Zero
                                 ELSE st.accumulator, inputVal, st.pendingOp)
         IN  IF result = Null \/ ~IsFinite(result)
             THEN updateDisplay(State(ERROR, Null, NoOp, st.lastPressedEquals))
             ELSE State(String(result), Null, NoOp, TRUE)

\* pressEquals without the assignments of lines 133-134: the operator stays
\* pending after the evaluation
pressEqualsKeepsPending(st) ==
    IF st.currentInput = ERROR THEN st
    ELSE IF st.pendingOp = NoOp THEN [st EXCEPT !.lastPressedEquals = TRUE]
    ELSE LET inputVal == Number(st.currentInput)
             result   == compute(IF st.accumulator = Null THEN Zero
                                 ELSE st.accumulator, inputVal, st.pendingOp)
         IN  IF result = Null \/ ~IsFinite(result)
             THEN updateDisplay(State(ERROR, Null, NoOp, st.lastPressedEquals))
             ELSE State(String(roundForDisplay(result)), st.accumulator,
                        st.pendingOp, TRUE)

pressEquals(st) ==
    IF st.currentInput = ERROR THEN st
    ELSE IF st.pendingOp = NoOp THEN [st EXCEPT !.lastPressedEquals = TRUE]
    ELSE LET inputVal == Number(st.currentInput)
             result   == compute(IF st.accumulator = Null THEN Zero
                                 ELSE st.accumulator, inputVal, st.pendingOp)
         IN  IF result = Null \/ ~IsFinite(result)
             THEN updateDisplay(State(ERROR, Null, NoOp, st.lastPressedEquals))
             ELSE State(String(roundForDisplay(result)), Null, NoOp, TRUE)

\* the Backspace case without the branch of line 217
backspaceAlwaysSlices(st) ==
    IF Len(st.currentInput) <= 1 THEN [st EXCEPT !.currentInput = <<"0">>]
    ELSE [st EXCEPT !.currentInput =
              SubSeq(st.currentInput, 1, Len(st.currentInput) - 1)]

\* the keydown handler's Backspace case
backspace(st) ==
    IF st.lastPressedEquals THEN clearAll(st)
    ELSE IF Len(st.currentInput) <= 1 THEN [st EXCEPT !.currentInput = <<"0">>]
    ELSE [st EXCEPT !.currentInput =
              SubSeq(st.currentInput, 1, Len(st.currentInput) - 1)]

(***************************************************************************)
(* The state machine: the engine's variables, the display element's text,  *)
(* and the commands as handleButtonPress (lines 148-181) and the keydown   *)
(* handler (lines 193-231) run them: the handler, then updateDisplay.      *)
(*                                                                         *)
(* History variables: last is the command issued last and prev the engine  *)
(* state and display text it was issued in; nkeys counts the commands;     *)
(* keys is the log of all commands, kept by the scenario specifications    *)
(* only.                                                                   *)
(***************************************************************************)
VARIABLES currentInput, accumulator, pendingOp, lastPressedEquals,
          display, last, prev, keys, nkeys

vars == <<currentInput, accumulator, pendingOp, lastPressedEquals,
          display, last, prev, keys, nkeys>>

Engine == State(currentInput, accumulator, pendingOp, lastPressedEquals)

\* what a command finds: the engine state and the text on display
Snapshot(st, text) ==
    [currentInput |-> st.currentInput, accumulator |-> st.accumulator,
     pendingOp |-> st.pendingOp, lastPressedEquals |-> st.lastPressedEquals,
     display |-> text]

\* the number of commands of a run of Spec
MaxKeys == 7

\* the digit keys pressed in a run of Spec
Digits == {"0", "3"}

\* the digit keys pressed in a run of SpecCalc, and the most digits of each
\* of the first two operands (later operands are one digit)
CalcDigits == {"0", "2", "3", "5"}

MaxOperandLen == 1

\* the digit keys pressed in a run of SpecEntry; only the first EntryFree
\* keys may be "0", and the point is pressed at most MaxPoints times
EntryDigits == {"0", "3"}

EntryFree == 3

MaxPoints == 1

\* the digit key pressed in a run of SpecRender, the most percent presses
\* after the entry and the most commands after those
RenderDigits == {"3"}

MaxPercents == 3

MaxEdits == 2

DigitKeys == {DigitChars[i] : i \in 1..10}

IsDigitKey(k) == k \in DigitKeys

(***************************************************************************)
(* The logs of the scenario specifications.  A log is read as tokens: a    *)
(* run of digit keys is one operand ("n"), any other key stands for        *)
(* itself, the four operators for "o".                                     *)
(***************************************************************************)
KeyClass(k) == IF IsDigitKey(k) THEN "n" ELSE IF k \in Ops THEN "o" ELSE k

\* the classes of the tokens of log w
RECURSIVE Classes(_)
Classes(w) ==
    IF w = <<>> THEN <<>>
    ELSE LET n == Len(w)
             r == Classes(SubSeq(w, 1, n - 1))
             c == KeyClass(w[n])
         IN  IF c = "n" /\ n > 1 /\ IsDigitKey(w[n - 1]) THEN r
             ELSE Append(r, c)

\* the number of digit keys at the end of log w
RECURSIVE TrailingDigits(_)
TrailingDigits(w) ==
    IF w = <<>> \/ ~IsDigitKey(w[Len(w)]) THEN 0
    ELSE 1 + TrailingDigits(SubSeq(w, 1, Len(w) - 1))

IsPrefix(a, b) == Len(a) <= Len(b) /\ a = SubSeq(b, 1, Len(a))

\* the calculations of SpecCalc: two or three operands folded and
\* evaluated; after a two-operand evaluation a new entry, a clear and a
\* new entry, or a further operator, operand and evaluation
CalcWords ==
    { <<"n", "o", "n", "o", "n", "=">>,
      <<"n", "o", "n", "=", "n">>,
      <<"n", "o", "n", "=", "C", "n">>,
      <<"n", "o", "n", "=", "o", "n", "=">> }

CalcPrefixes ==
    UNION {{SubSeq(cw, 1, n) : n \in 0..Len(cw)} : cw \in CalcWords}

CalcShape(w) ==
    LET c == Classes(w)
    IN  /\ c \in CalcPrefixes
        /\ TrailingDigits(w) <= (IF Len(c) <= 3 THEN MaxOperandLen ELSE 1)

Count(w, k) == Cardinality({i \in 1..Len(w) : w[i] = k})

\* the entries of SpecEntry: digits and points, then possibly percent and
\* one more digit
EntryShape(w) ==
    LET pi == IndexOf(w, {"%"})
        e  == IF pi = 0 THEN w ELSE SubSeq(w, 1, pi - 1)
        t  == IF pi = 0 THEN <<>> ELSE SubSeq(w, pi + 1, Len(w))
    IN  /\ Len(e) <= MAX_DIGITS + 2
        /\ Count(e, ".") <= MaxPoints
        /\ \A i \in 1..Len(e) : i > EntryFree => e[i] # "0"
        /\ Len(t) <= 1
        /\ \A i \in 1..Len(t) : IsDigitKey(t[i])

\* the commands that follow the entry and the percents in SpecRender
EditKeys == {"B", "N", "="}

\* the logs of SpecRender: digits and at most one point, then percents,
\* then backspace, negate and equals
RenderShape(w) ==
    LET i1 == IndexOf(w, EditKeys \cup {"%"})
        e  == IF i1 = 0 THEN w ELSE SubSeq(w, 1, i1 - 1)
        r  == IF i1 = 0 THEN <<>> ELSE SubSeq(w, i1, Len(w))
        i2 == IndexOf(r, EditKeys)
        pc == IF i2 = 0 THEN r ELSE SubSeq(r, 1, i2 - 1)
        t  == IF i2 = 0 THEN <<>> ELSE SubSeq(r, i2, Len(r))
    IN  /\ Count(e, ".") <= 1
        /\ Len(e) - Count(e, ".") <= MAX_DIGITS
        /\ Len(pc) <= MaxPercents
        /\ \A i \in 1..Len(pc) : pc[i] = "%"
        /\ Len(t) <= MaxEdits
        /\ \A i \in 1..Len(t) : t[i] \in EditKeys

\* whether the run issues command key next
Allowed(run, key) ==
    CASE run = "free"  -> nkeys < MaxKeys
      [] run = "calc"  -> CalcShape(Append(keys, key))
      [] run = "entry" -> EntryShape(Append(keys, key))
      [] run = "render" -> RenderShape(Append(keys, key))

\* keys after one more command
Log(run, key) == IF run = "free" THEN keys ELSE Append(keys, key)

Init ==
    /\ currentInput = <<"0">>
    /\ accumulator = Null
    /\ pendingOp = NoOp
    /\ lastPressedEquals = FALSE
    /\ display = updateDisplayText(<<"0">>)
    /\ last = ""
    /\ prev = Snapshot(State(<<"0">>, Null, NoOp, FALSE), <<"0">>)
    /\ keys = <<>>
    /\ nkeys = 0

\* handleButtonPress and the keydown handler: the command's handler has
\* left the engine in state st; updateDisplay follows
Dispatch(st, key, run) ==
    /\ Allowed(run, key)
    /\ currentInput' = updateDisplayInput(st.currentInput)
    /\ accumulator' = st.accumulator
    /\ pendingOp' = st.pendingOp
    /\ lastPressedEquals' = st.lastPressedEquals
    /\ display' = updateDisplayText(st.currentInput)
    /\ last' = key
    /\ prev' = Snapshot(Engine, display)
    /\ keys' = Log(run, key)
    /\ nkeys' = nkeys + 1

PressDigit(d, run) == Dispatch(inputDigit(Engine, d), d, run)

PressOperator(op, run) == Dispatch(pressOperator(Engine, op), op, run)

PressEquals(run) == Dispatch(pressEquals(Engine), "=", run)

PressClear(run) == Dispatch(clearAll(Engine), "C", run)

PressNegate(run) == Dispatch(toggleNegate(Engine), "N", run)

PressPercent(run) == Dispatch(percent(Engine), "%", run)

PressBackspace(run) == Dispatch(backspace(Engine), "B", run)

\* any command in any order
Next ==
    \/ \E d \in Digits \cup {"."} : PressDigit(d, "free")
    \/ \E op \in Ops : PressOperator(op, "free")
    \/ PressEquals("free")
    \/ PressClear("free")
    \/ PressNegate("free")
    \/ PressPercent("free")
    \/ PressBackspace("free")

Spec == Init /\ [][Next]_vars

\* the calculations of CalcWords
NextCalc ==
    \/ \E d \in CalcDigits : PressDigit(d, "calc")
    \/ \E op \in Ops : PressOperator(op, "calc")
    \/ PressEquals("calc")
    \/ PressClear("calc")

SpecCalc == Init /\ [][NextCalc]_vars

\* the entry of one operand
NextEntry ==
    \/ \E d \in EntryDigits \cup {"."} : PressDigit(d, "entry")
    \/ PressPercent("entry")

SpecEntry == Init /\ [][NextEntry]_vars

\* an entry, percents, then backspace, negate and equals
NextRender ==
    \/ \E d \in RenderDigits \cup {"."} : PressDigit(d, "render")
    \/ PressPercent("render")
    \/ PressBackspace("render")
    \/ PressNegate("render")
    \/ PressEquals("render")

SpecRender == Init /\ [][NextRender]_vars

(***************************************************************************)
(* Properties.                                                             *)
(***************************************************************************)
\* the tokens of log w: each run of digit keys, each other key
RECURSIVE Tokens(_)
Tokens(w) ==
    IF w = <<>> THEN <<>>
    ELSE LET n == Len(w)
             r == Tokens(SubSeq(w, 1, n - 1))
         IN  IF IsDigitKey(w[n]) /\ n > 1 /\ IsDigitKey(w[n - 1])
             THEN [r EXCEPT ![Len(r)] = Append(@, w[n])]
             ELSE Append(r, <<w[n]>>)

\* a op b as arithmetic
Apply(a, b, op) ==
    CASE op = "+" -> NumAdd(a, b)
      [] op = "-" -> NumSub(a, b)
      [] op = "*" -> NumMul(a, b)
      [] op = "/" -> NumDiv(a, b)

\* the digits of string s, sign and point not counted
DigitCount(s) == Cardinality({i \in 1..Len(s) : IsDigitChar(s[i])})

InError == currentInput = ERROR

----------------------------------------------------------------------------
\* C1: once CurrentInput is the ERROR sentinel, every command other than
\* clear leaves the engine state unchanged and the display reading "Error"
ErrorAbsorbing ==
    (prev.currentInput = ERROR /\ last \notin {"", "C"})
        => /\ Engine = State(prev.currentInput, prev.accumulator,
                             prev.pendingOp, prev.lastPressedEquals)
           /\ display = ErrorText

\* C2: whenever CurrentInput is the ERROR sentinel, Accumulator and
\* PendingOperator are both absent
ErrorClearsPending == InError => accumulator = Null /\ pendingOp = NoOp

----------------------------------------------------------------------------
\* the operands and operators of a calculation a op1 b [op2 c]
ChainA == Number(Tokens(keys)[1])

ChainB == Number(Tokens(keys)[3])

ChainC == Number(Tokens(keys)[5])

ChainOp1 == Tokens(keys)[2][1]

ChainOp2 == Tokens(keys)[4][1]

\* C3: a, op1, b, op2, c, equals without a division by zero leaves
\* CurrentInput = roundForDisplay(compute(compute(a, b, op1), c, op2)): the
\* operators fold left to right, without precedence
ChainEvaluation ==
    (/\ Classes(keys) = <<"n", "o", "n", "o", "n", "=">>
     /\ ~(ChainOp1 = "/" /\ IsZero(ChainB))
     /\ ~(ChainOp2 = "/" /\ IsZero(ChainC)))
        => currentInput =
               String(roundForDisplay(
                   compute(compute(ChainA, ChainB, ChainOp1), ChainC, ChainOp2)))

\* 5 + 3 * 2 = has left 16
ChainEvaluated ==
    /\ keys = <<"5", "+", "3", "*", "2", "=">>
    /\ currentInput = <<"1", "6">>

\* C4: n1, op, n2, equals (n2 not 0 when op is the division) leaves
\* CurrentInput = roundForDisplay(n1 op n2), Accumulator and
\* PendingOperator absent and LastPressedEquals true
RoundTrip ==
    (/\ Classes(keys) = <<"n", "o", "n", "=">>
     /\ ~(ChainOp1 = "/" /\ IsZero(ChainB)))
        => /\ currentInput =
                  String(roundForDisplay(Apply(ChainA, ChainB, ChainOp1)))
           /\ accumulator = Null
           /\ pendingOp = NoOp
           /\ lastPressedEquals

\* 2 / 3 = has left the quotient rounded to twelve digits
RoundTripDone ==
    /\ keys = <<"2", "/", "3", "=">>
    /\ currentInput = <<"0", ".">> \o [i \in 1..11 |-> "6"] \o <<"7">>
    /\ accumulator = Null /\ pendingOp = NoOp /\ lastPressedEquals

\* the log starts with a division by zero evaluated
DividedByZero ==
    /\ IsPrefix(<<"n", "o", "n", "=">>, Classes(keys))
    /\ ChainOp1 = "/"
    /\ IsZero(ChainB)

\* C5: n, division, 0, equals leaves the Error state with display "Error";
\* a digit press then leaves the display "Error"; clear and digit d leaves
\* display d
ErrorLatch ==
    DividedByZero =>
        /\ Len(Classes(keys)) = 4 => InError /\ display = ErrorText
        /\ Classes(keys) = <<"n", "o", "n", "=", "n">>
               => InError /\ display = ErrorText
        /\ (Classes(keys) = <<"n", "o", "n", "=", "C", "n">>
            /\ Len(Tokens(keys)[6]) = 1)
               => display = Tokens(keys)[6]

\* 5 / 0 = clear 3 shows 3
ErrorLatchCleared ==
    /\ keys = <<"5", "/", "0", "=", "C", "3">>
    /\ prev.display = <<"0">>
    /\ display = <<"3">>

----------------------------------------------------------------------------
\* C6: clear, in any state, leaves CurrentInput = "0", Accumulator and
\* PendingOperator absent and LastPressedEquals false
ClearResets ==
    last = "C" => /\ currentInput = <<"0">>
                  /\ accumulator = Null
                  /\ pendingOp = NoOp
                  /\ lastPressedEquals = FALSE

\* clear has been pressed in the Error state
ClearedError == last = "C" /\ prev.currentInput = ERROR /\ ~InError

\* C7: CurrentInput is the ERROR sentinel or parses to a finite number
InputParses == InError \/ IsFinite(Number(currentInput))

----------------------------------------------------------------------------
\* C8: unless it is ERROR, CurrentInput has at most MAX_DIGITS digits,
\* also when it is a result stored by equals or percent
DigitBound == ~InError => DigitCount(currentInput) <= MAX_DIGITS

\* C8, for digit entry: a digit press that changes CurrentInput leaves at
\* most MAX_DIGITS digits in it
DigitEntryBound ==
    (IsDigitKey(last) /\ currentInput # prev.currentInput /\ ~InError)
        => DigitCount(currentInput) <= MAX_DIGITS

\* a digit press has filled CurrentInput to MAX_DIGITS digits
DigitsFull ==
    /\ IsDigitKey(last)
    /\ currentInput = Append(prev.currentInput, last)
    /\ DigitCount(currentInput) = MAX_DIGITS

----------------------------------------------------------------------------
\* C9: equals pressed again after an evaluation leaves CurrentInput, the
\* display, Accumulator, PendingOperator and LastPressedEquals unchanged
EqualsIdempotent ==
    (last = "=" /\ prev.lastPressedEquals /\ prev.currentInput # ERROR)
        => Snapshot(Engine, display) = prev

\* equals has been pressed again on a computed result
EqualsRepeated ==
    /\ last = "="
    /\ prev.lastPressedEquals
    /\ Len(currentInput) > 2
    /\ AllDigitChars(RemovePoint(currentInput))

----------------------------------------------------------------------------
\* the entry keys of the log: digits and points only
EntryOnly == \A i \in 1..Len(keys) : IsDigitKey(keys[i]) \/ keys[i] = "."

\* the string "0" followed by the keys w, every leading "0" that a digit
\* follows removed
RECURSIVE StripZeros(_)
StripZeros(s) ==
    IF Len(s) >= 2 /\ s[1] = "0" /\ IsDigitChar(s[2])
    THEN StripZeros(Tail(s)) ELSE s

Literal(w) == StripZeros(<<"0">> \o w)

\* the digit presses of log w
DigitPresses(w) == Cardinality({i \in 1..Len(w) : IsDigitKey(w[i])})

\* C10: after digit and point presses with at most one point and at most
\* MAX_DIGITS digits, CurrentInput is the concatenation of the pressed
\* characters, no press dropped
LiteralEntry ==
    (EntryOnly /\ Count(keys, ".") <= 1 /\ DigitPresses(keys) <= MAX_DIGITS)
        => currentInput = Literal(keys)

\* C10, counting the "0" the buffer keeps before the point: while "0"
\* and the presses, leading zeros removed, have at most MAX_DIGITS digits,
\* CurrentInput is that string
LiteralEntryFits ==
    (EntryOnly /\ Count(keys, ".") <= 1
     /\ DigitCount(Literal(keys)) <= MAX_DIGITS)
        => currentInput = Literal(keys)

\* a zero, a point and digits have filled CurrentInput
LiteralFull ==
    /\ EntryOnly
    /\ Len(keys) = MAX_DIGITS + 1
    /\ keys[1] = "0"
    /\ keys[2] = "."
    /\ currentInput = keys

----------------------------------------------------------------------------
\* the engine state the last command was issued in
PrevEngine ==
    State(prev.currentInput, prev.accumulator, prev.pendingOp,
          prev.lastPressedEquals)

\* the value of CurrentInput the last command read
PrevInput == Number(prev.currentInput)

\* the last command, an operator, folded the pending operator (line 101)
OperatorFolded ==
    /\ last \in Ops
    /\ prev.currentInput # ERROR
    /\ prev.accumulator # Null
    /\ (~prev.lastPressedEquals \/ prev.pendingOp # NoOp)

\* the last command, equals, evaluated the pending operator (line 124)
EqualsEvaluated ==
    last = "=" /\ prev.currentInput # ERROR /\ prev.pendingOp # NoOp

\* C11: compute(a, b, "/") with b = 0 yields the divide-by-zero signal for
\* every a the commands pass to it
DivideByZeroSignal ==
    /\ (OperatorFolded /\ prev.pendingOp = "/" /\ IsZero(PrevInput))
           => compute(prev.accumulator, PrevInput, "/") = Null
    /\ (EqualsEvaluated /\ prev.pendingOp = "/" /\ IsZero(PrevInput))
           => compute(IF prev.accumulator = Null THEN Zero
                      ELSE prev.accumulator, PrevInput, "/") = Null

\* C12: a digit or point pressed while LastPressedEquals is true, not in
\* Error, leaves Accumulator and PendingOperator absent, LastPressedEquals
\* false and CurrentInput the digit alone ("0." for the point)
FreshEntry ==
    ((IsDigitKey(last) \/ last = ".")
     /\ prev.lastPressedEquals /\ prev.currentInput # ERROR)
        => /\ accumulator = Null
           /\ pendingOp = NoOp
           /\ lastPressedEquals = FALSE
           /\ currentInput = (IF last = "." THEN <<"0", ".">> ELSE <<last>>)

\* a digit has been pressed on a computed result of several characters
FreshEntryStarted ==
    /\ last = "3"
    /\ prev.lastPressedEquals
    /\ Len(prev.currentInput) > 2
    /\ AllDigitChars(RemovePoint(prev.currentInput))
    /\ currentInput = <<"3">>

----------------------------------------------------------------------------
\* C15: an operator pressed while an operator is pending (not in Error, no
\* division by zero) folds: Accumulator = compute(Accumulator, value of
\* CurrentInput, pending operator), PendingOperator = the operator pressed,
\* CurrentInput = "0", LastPressedEquals = false
OperatorFolds ==
    (/\ last \in Ops
     /\ prev.currentInput # ERROR
     /\ prev.pendingOp # NoOp
     /\ ~(prev.pendingOp = "/" /\ IsZero(PrevInput)))
        => /\ accumulator =
                  compute(prev.accumulator, PrevInput, prev.pendingOp)
           /\ pendingOp = last
           /\ currentInput = <<"0">>
           /\ lastPressedEquals = FALSE

\* an operator pressed directly after another has folded in 0
FoldedZero ==
    /\ last \in Ops
    /\ prev.pendingOp \in Ops \ {last}
    /\ prev.currentInput = <<"0">>
    /\ ~IsZero(prev.accumulator)
    /\ IsZero(accumulator)

\* C16: an operator press that folds a pending division with a right
\* operand of value zero leaves CurrentInput = ERROR, Accumulator and
\* PendingOperator absent and the display "Error"
FoldDivideByZero ==
    (OperatorFolded /\ prev.pendingOp = "/" /\ IsZero(PrevInput))
        => /\ InError
           /\ accumulator = Null
           /\ pendingOp = NoOp
           /\ display = ErrorText

----------------------------------------------------------------------------
\* the result of the first evaluation of a op1 b = op2 c =
FirstResult == roundForDisplay(compute(ChainA, ChainB, ChainOp1))

\* the operator and operand after the first evaluation
ReuseOp == Tokens(keys)[5][1]

ReuseC == Number(Tokens(keys)[6])

\* C17: an operator pressed after an evaluation with result r leaves
\* Accumulator = r, PendingOperator = the operator, CurrentInput = "0";
\* a, op1, b, equals, op2, c, equals leaves
\* roundForDisplay(compute(roundForDisplay(compute(a, b, op1)), c, op2))
ResultReuse ==
    (/\ IsPrefix(<<"n", "o", "n", "=", "o">>, Classes(keys))
     /\ ~(ChainOp1 = "/" /\ IsZero(ChainB)))
        => /\ Len(Classes(keys)) = 5
               => /\ accumulator = FirstResult
                  /\ pendingOp = ReuseOp
                  /\ currentInput = <<"0">>
           /\ (Len(Classes(keys)) = 7 /\ ~(ReuseOp = "/" /\ IsZero(ReuseC)))
               => currentInput =
                      String(roundForDisplay(
                          compute(FirstResult, ReuseC, ReuseOp)))

\* 5 / 3 = * 2 = has left twice the rounded quotient
ResultReused ==
    /\ keys = <<"5", "/", "3", "=", "*", "2", "=">>
    /\ currentInput = <<"3", ".">> \o [i \in 1..10 |-> "3"] \o <<"4">>

----------------------------------------------------------------------------
\* C18: Accumulator is absent if and only if PendingOperator is absent
AccumulatorIffPending == (accumulator = Null) <=> (pendingOp = NoOp)

\* an operator press has folded: both are present
BothPresent ==
    OperatorFolded /\ accumulator # Null /\ pendingOp = last

\* C19: LastPressedEquals = true implies Accumulator and PendingOperator
\* are both absent
EqualsLeavesNothingPending ==
    lastPressedEquals => accumulator = Null /\ pendingOp = NoOp

\* equals has evaluated a pending operator
EvaluatedNothingPending ==
    EqualsEvaluated /\ lastPressedEquals /\ prev.accumulator # Null

\* C20: negate applied a second time restores CurrentInput as it was
\* before the first, and negate leaves Accumulator, PendingOperator and
\* LastPressedEquals as they were
NegateInvolution ==
    last = "N" =>
        /\ updateDisplay(toggleNegate(Engine)).currentInput
               = prev.currentInput
        /\ accumulator = prev.accumulator
        /\ pendingOp = prev.pendingOp
        /\ lastPressedEquals = prev.lastPressedEquals

----------------------------------------------------------------------------
\* the engine state the last command's handler left, before updateDisplay
Handled ==
    CASE last = "C" -> clearAll(PrevEngine)
      [] last = "N" -> toggleNegate(PrevEngine)
      [] last = "%" -> percent(PrevEngine)
      [] last = "=" -> pressEquals(PrevEngine)
      [] last = "B" -> backspace(PrevEngine)
      [] last \in Ops -> pressOperator(PrevEngine, last)
      [] OTHER -> inputDigit(PrevEngine, last)

\* string s has more than MAX_DIGITS characters and is no finite number
LongAndUnparsable(s) == Len(s) > MAX_DIGITS /\ ~IsFinite(Number(s))

\* C13: updateDisplay leaves Accumulator, PendingOperator and
\* LastPressedEquals as the handler left them, and CurrentInput too unless
\* it is longer than MAX_DIGITS characters and parses to no finite number,
\* when it becomes ERROR
RenderKeepsState ==
    last # "" =>
        LET h == Handled
        IN  /\ accumulator = h.accumulator
            /\ pendingOp = h.pendingOp
            /\ lastPressedEquals = h.lastPressedEquals
            /\ currentInput = (IF LongAndUnparsable(h.currentInput)
                               THEN ERROR ELSE h.currentInput)

\* the display shows other text than the stored CurrentInput
RenderedShorter ==
    /\ ~InError
    /\ Len(currentInput) > MAX_DIGITS
    /\ display # currentInput
    /\ currentInput = Handled.currentInput

----------------------------------------------------------------------------
\* CurrentInput of the last command's state without its last character
Sliced ==
    IF Len(prev.currentInput) <= 1 THEN <<"0">>
    ELSE SubSeq(prev.currentInput, 1, Len(prev.currentInput) - 1)

\* C14: backspace with LastPressedEquals true leaves the state clear
\* leaves; otherwise it removes the last character of CurrentInput, or
\* leaves "0" for a buffer of one character, and leaves Accumulator,
\* PendingOperator and LastPressedEquals unchanged
BackspaceSlices ==
    last = "B" =>
        IF prev.lastPressedEquals
        THEN Engine = State(<<"0">>, Null, NoOp, FALSE)
        ELSE /\ currentInput = Sliced
             /\ accumulator = prev.accumulator
             /\ pendingOp = prev.pendingOp
             /\ lastPressedEquals = prev.lastPressedEquals

\* C14, with the rendering that follows: a shortened buffer of more than
\* MAX_DIGITS characters that parses to no finite number becomes ERROR
BackspaceSlicesRendered ==
    last = "B" =>
        IF prev.lastPressedEquals
        THEN Engine = State(<<"0">>, Null, NoOp, FALSE)
        ELSE /\ currentInput =
                    (IF LongAndUnparsable(Sliced) THEN ERROR ELSE Sliced)
             /\ accumulator = prev.accumulator
             /\ pendingOp = prev.pendingOp
             /\ lastPressedEquals = prev.lastPressedEquals

\* backspace has cut an exponent and the rendering has set ERROR
BackspaceRenderedError ==
    /\ last = "B"
    /\ ~prev.lastPressedEquals
    /\ prev.currentInput # ERROR
    /\ LongAndUnparsable(Sliced)
    /\ InError

====
